---- MODULE Spec2Model ----
(***************************************************************************)
(* Model of src/dsp.rs of rust-fmod: the Dsp wrapper around a native       *)
(* FMOD_DSP handle (ownership flag, release, Drop, graph editing) and the  *)
(* marshalling of DspParameterDesc / DspDescription to the native          *)
(* descriptor structures.                                                  *)
(*                                                                         *)
(* Three specifications share the variables:                               *)
(*   Spec           the life of Dsp wrappers (from_ptr_first .. drop);     *)
(*   SpecReleaseOk  the same, FMOD_DSP_Release succeeding when called;     *)
(*   SpecMarshal    the descriptor conversions and the parameter queries.  *)
(*                                                                         *)
(* The native subsystem is the environment: the status of each native call *)
(* is chosen freely.  A wrapper that was dropped no longer exists, so its  *)
(* slot keeps nothing of it; what its last release() did is in log.        *)
(* Strings are byte sequences without an interior zero byte.               *)
(***************************************************************************)
EXTENDS Integers, Sequences, FiniteSets, TLC

VARIABLES
    objs,     \* slot -> the Dsp value {dsp, can_be_deleted}
    life,     \* slot -> "free" (not yet built) | "live" | "gone" (dropped)
    hist,     \* slot -> how the live wrapper was built, its successful releases
    nrel,     \* native handle -> successful FMOD_DSP_Release calls on it
    log,      \* what the last operation did and returned
    pc,       \* SpecMarshal: position of the conversion scenario
    desc,     \* SpecMarshal: the DspParameterDesc / DspDescription being converted
    mem,      \* SpecMarshal: C string buffers, by address
    cffi,     \* SpecMarshal: the exported native structure (pointers into mem)
    back,     \* SpecMarshal: the structure imported again
    query     \* SpecMarshal: the last get_parameter / get_parameter_info call

lifeVars == <<objs, life, hist, nrel, log>>
marshalVars == <<pc, desc, mem, cffi, back, query>>
vars == <<objs, life, hist, nrel, log, pc, desc, mem, cffi, back, query>>

---------------------------------------------------------------------------
(* Bounds of the model *)

MaxWrappers == 2     \* Dsp values built in one run
MaxStrLen == 18      \* longest parameter name tried

\* one native unit per wrapper at most
Slots == 1..MaxWrappers
Handles == 1..MaxWrappers

---------------------------------------------------------------------------
(* Native statuses and handles *)

\* ::std::ptr::mut_null()
Null == 0

\* fmod::Ok and two of the native failure kinds
Ok == "Ok"
Errors == {"ErrInvalidHandle", "ErrInternal"}
Status == {Ok} \cup Errors

---------------------------------------------------------------------------
(* The Dsp value and its constructors *)

from_ptr(h) == [dsp |-> h, can_be_deleted |-> FALSE]

from_ptr_first(h) == [dsp |-> h, can_be_deleted |-> TRUE]

get_ffi(d) == d.dsp

---------------------------------------------------------------------------
(* Dsp::release, as a function of the status the native call returns *)

\* mutant: the ownership flag is not consulted
ReleaseCallsNativeIgnoringOwnership(d) == d.dsp # Null

\* the guard of release(): the native call is issued
ReleaseCallsNative(d) == d.can_be_deleted /\ d.dsp # Null

\* mutant: the handle is kept after a successful native release
ReleaseHandleKept(h, st) == h

\* mutant: the handle is cleared whatever the native release returned
ReleaseHandleAlwaysCleared(h, st) == Null

\* the handle after the native release returned st
ReleaseHandle(h, st) == IF st = Ok THEN Null ELSE h

\* the wrapper after release(), the native call (if issued) returning st
ReleaseSelf(d, st) ==
    IF ReleaseCallsNative(d)
    THEN [d EXCEPT !.dsp = ReleaseHandle(d.dsp, st)]
    ELSE d

\* what release() returns
ReleaseResult(d, st) == IF ReleaseCallsNative(d) THEN st ELSE Ok

---------------------------------------------------------------------------
(* History bookkeeping *)

NoRel == [w |-> 0, owned |-> FALSE, orig |-> Null, via |-> "none",
          ret |-> "none", native |-> "none"]

NewHist(h, how) == [orig |-> h, via |-> how, okcalls |-> 0]

FreeHist == NewHist(Null, "none")

\* the record of one run of release() on slot w, the native call returning st
RelLog(w, st) ==
    [w |-> w,
     owned |-> objs[w].can_be_deleted,
     orig |-> hist[w].orig,
     via |-> hist[w].via,
     ret |-> ReleaseResult(objs[w], st),
     native |-> IF ReleaseCallsNative(objs[w]) THEN st ELSE "none"]

\* FMOD_DSP_Release was called through slot w and returned Ok
Freed(w, st) == ReleaseCallsNative(objs[w]) /\ st = Ok

RelHist(w, st) ==
    [hist EXCEPT ![w].okcalls = @ + (IF Freed(w, st) THEN 1 ELSE 0)]

RelCount(w, st) ==
    IF Freed(w, st) THEN [nrel EXCEPT ![objs[w].dsp] = @ + 1] ELSE nrel

\* the slot the next wrapper is built in
NextSlot(w) == life[w] = "free" /\ \A v \in Slots : v < w => life[v] # "free"

LiveSlots == {w \in Slots : life[w] = "live"}

\* handles a caller can pass to from_ptr / from_ptr_first: one the native
\* subsystem handed out and no wrapper holds yet, null, or one read from a
\* wrapper with get_ffi
Unwrapped == {h \in Handles : nrel[h] = 0 /\ \A v \in LiveSlots : hist[v].orig # h}

KnownHandles == Unwrapped \cup {Null} \cup {get_ffi(objs[v]) : v \in LiveSlots}

\* a dropped wrapper no longer exists
Gone == from_ptr(Null)

---------------------------------------------------------------------------
(* Operations on wrappers *)

FromPtrFirst(w, h) ==
    /\ NextSlot(w)
    /\ h \in KnownHandles
    /\ objs' = [objs EXCEPT ![w] = from_ptr_first(h)]
    /\ life' = [life EXCEPT ![w] = "live"]
    /\ hist' = [hist EXCEPT ![w] = NewHist(h, "from_ptr_first")]
    /\ log' = [op |-> "from_ptr_first", ret |-> "unit",
               nat |-> "none", rel |-> NoRel]
    /\ UNCHANGED nrel

FromPtr(w, h) ==
    /\ NextSlot(w)
    /\ h \in KnownHandles
    /\ objs' = [objs EXCEPT ![w] = from_ptr(h)]
    /\ life' = [life EXCEPT ![w] = "live"]
    /\ hist' = [hist EXCEPT ![w] = NewHist(h, "from_ptr")]
    /\ log' = [op |-> "from_ptr", ret |-> "unit",
               nat |-> "none", rel |-> NoRel]
    /\ UNCHANGED nrel

\* an explicit release(); st is what FMOD_DSP_Release returns if it is called
Release(w, st) ==
    /\ life[w] = "live"
    /\ ReleaseCallsNative(objs[w]) \/ st = Ok
    /\ objs' = [objs EXCEPT ![w] = ReleaseSelf(objs[w], st)]
    /\ hist' = RelHist(w, st)
    /\ nrel' = RelCount(w, st)
    /\ log' = [op |-> "release", ret |-> ReleaseResult(objs[w], st),
               nat |-> "none", rel |-> RelLog(w, st)]
    /\ UNCHANGED life

\* the wrapper goes out of scope: Drop calls release() and drops its result
Drop(w, st) ==
    /\ life[w] = "live"
    /\ ReleaseCallsNative(objs[w]) \/ st = Ok
    /\ objs' = [objs EXCEPT ![w] = Gone]
    /\ life' = [life EXCEPT ![w] = "gone"]
    /\ hist' = [hist EXCEPT ![w] = FreeHist]
    /\ nrel' = RelCount(w, st)
    /\ log' = [op |-> "drop", ret |-> "unit",
               nat |-> "none", rel |-> RelLog(w, st)]

\* FMOD_DSP_AddInput / FMOD_DSP_DisconnectFrom can succeed only on two valid units
NativeCanConnect(h1, h2) == h1 # Null /\ h2 # Null /\ h1 # h2

\* self.add_input(target): target is taken by value, so it is dropped when
\* add_input returns; st is FMOD_DSP_AddInput's status, st2 the release's
AddInput(w, t, st, st2) ==
    /\ life[w] = "live" /\ life[t] = "live" /\ w # t
    /\ st = Ok => NativeCanConnect(objs[w].dsp, objs[t].dsp)
    /\ ReleaseCallsNative(objs[t]) \/ st2 = Ok
    /\ objs' = [objs EXCEPT ![t] = Gone]
    /\ life' = [life EXCEPT ![t] = "gone"]
    /\ hist' = [hist EXCEPT ![t] = FreeHist]
    /\ nrel' = RelCount(t, st2)
    /\ log' = [op |-> "add_input", ret |-> st,
               nat |-> st, rel |-> RelLog(t, st2)]

\* self.disconnect_from(target): target is taken by value as well
DisconnectFrom(w, t, st, st2) ==
    /\ life[w] = "live" /\ life[t] = "live" /\ w # t
    /\ st = Ok => NativeCanConnect(objs[w].dsp, objs[t].dsp)
    /\ ReleaseCallsNative(objs[t]) \/ st2 = Ok
    /\ objs' = [objs EXCEPT ![t] = Gone]
    /\ life' = [life EXCEPT ![t] = "gone"]
    /\ hist' = [hist EXCEPT ![t] = FreeHist]
    /\ nrel' = RelCount(t, st2)
    /\ log' = [op |-> "disconnect_from", ret |-> st,
               nat |-> st, rel |-> RelLog(t, st2)]

\* self.get_input(index): FMOD_DSP_GetInput returns st and, on Ok, the input
\* unit h, which is wrapped as a borrowed Dsp in slot n; on an error nothing
\* is built (n and h are then fixed, as they play no part)
GetInput(w, n, st, h) ==
    /\ life[w] = "live"
    /\ st = Ok => objs[w].dsp # Null /\ h # objs[w].dsp /\ NextSlot(n)
    /\ st # Ok => n = w /\ \A g \in Handles : h <= g
    /\ IF st = Ok
       THEN /\ objs' = [objs EXCEPT ![n] = from_ptr(h)]
            /\ life' = [life EXCEPT ![n] = "live"]
            /\ hist' = [hist EXCEPT ![n] = NewHist(h, "get_input")]
       ELSE UNCHANGED <<objs, life, hist>>
    /\ log' = [op |-> "get_input", ret |-> st,
               nat |-> st, rel |-> NoRel]
    /\ UNCHANGED nrel

\* self.get_output(index)
GetOutput(w, n, st, h) ==
    /\ life[w] = "live"
    /\ st = Ok => objs[w].dsp # Null /\ h # objs[w].dsp /\ NextSlot(n)
    /\ st # Ok => n = w /\ \A g \in Handles : h <= g
    /\ IF st = Ok
       THEN /\ objs' = [objs EXCEPT ![n] = from_ptr(h)]
            /\ life' = [life EXCEPT ![n] = "live"]
            /\ hist' = [hist EXCEPT ![n] = NewHist(h, "get_output")]
       ELSE UNCHANGED <<objs, life, hist>>
    /\ log' = [op |-> "get_output", ret |-> st,
               nat |-> st, rel |-> NoRel]
    /\ UNCHANGED nrel

\* the operations that make one native call on self.dsp and return its
\* status as it is (remove, reset, disconnect_all, set_active, ...) or as the
\* Err of their result (get_num_inputs, is_active, get_type, ...)
ForwardedOps == {"remove", "get_num_inputs"}

Forward(w, op, st) ==
    /\ life[w] = "live"
    /\ st = Ok => objs[w].dsp # Null
    /\ log' = [op |-> op, ret |-> st, nat |-> st, rel |-> NoRel]
    /\ UNCHANGED <<objs, life, hist, nrel>>

---------------------------------------------------------------------------
(* Strings and C strings *)

\* tmp_name.truncate(16), tmp_label.truncate(16)
ParamStrCap == 16

\* tmp_s.truncate(32)
DescNameCap == 32

\* the buffer std's with_c_str copies a string shorter than this into
WithCStrStackLen == 128

\* a string of len non-zero bytes
Str(len, k) == [i \in 1..len |-> 1 + ((i + k) % 2)]

\* Vec::truncate(n)
Truncate(s, n) == IF Len(s) <= n THEN s ELSE SubSeq(s, 1, n)

\* with_c_str: a copy of the bytes followed by the terminator
WithCStr(s) == Append(s, 0)

\* the sizes of the buffer with_c_str may hand out for a string of len bytes:
\* the copy and its terminator, or the fixed stack buffer for a short string
WithCStrBufSizes(len) ==
    {len + 1} \cup (IF len < WithCStrStackLen THEN {WithCStrStackLen} ELSE {})

\* str::raw::from_c_str on valid memory: the bytes before the first terminator
FromCStr(bytes) ==
    LET ends == {i \in 1..Len(bytes) : bytes[i] = 0}
    IN  IF ends = {} THEN bytes
        ELSE SubSeq(bytes, 1, (CHOOSE i \in ends : \A j \in ends : i <= j) - 1)

\* what a read of freed memory may find in place of the string
Clobbered == <<2, 1>>

\* from_c_str through pointer p: the buffer's string while the buffer lives,
\* anything once it was freed
ReadCStr(p) ==
    IF mem[p].live THEN {FromCStr(mem[p].bytes)}
    ELSE {FromCStr(mem[p].bytes), Clobbered}

\* a buffer that with_c_str freed on return
FreedBuf(bytes) == [bytes |-> bytes, live |-> FALSE]

LiveBuf(bytes) == [bytes |-> bytes, live |-> TRUE]

---------------------------------------------------------------------------
(* Descriptor conversions *)

\* get_parameter_ffi: the structure returned, and the buffers its pointers
\* name; each with_c_str buffer is gone when get_parameter_ffi returns
get_parameter_ffi_struct(p) ==
    [min |-> p.min, max |-> p.max, default_val |-> p.default_val,
     name |-> 1, label |-> 2, description |-> 3]

get_parameter_ffi_mem(p) ==
    <<FreedBuf(WithCStr(Truncate(p.name, ParamStrCap))),
      FreedBuf(WithCStr(Truncate(p.label, ParamStrCap))),
      FreedBuf(WithCStr(p.description))>>

GetParameterFfi ==
    /\ pc = "start"
    /\ cffi' = [param_desc |-> get_parameter_ffi_struct(desc.param_desc)]
    /\ mem' = get_parameter_ffi_mem(desc.param_desc)
    /\ pc' = "exported"
    /\ UNCHANGED <<desc, back, query>>

\* get_description_ffi: the name is truncated to 32 bytes, the parameter is
\* converted by get_parameter_ffi, the other fields are copied
GetDescriptionFfi ==
    /\ pc = "start"
    /\ cffi' = [name |-> 4, version |-> desc.version,
                param_desc |-> get_parameter_ffi_struct(desc.param_desc)]
    /\ mem' = Append(get_parameter_ffi_mem(desc.param_desc),
                     FreedBuf(WithCStr(Truncate(desc.name, DescNameCap))))
    /\ pc' = "described"
    /\ UNCHANGED <<desc, back, query>>

\* the native subsystem fills a parameter structure of its own, in live memory
NativeFillsParameter ==
    /\ pc = "start"
    /\ cffi' = [param_desc |-> get_parameter_ffi_struct(desc.param_desc)]
    /\ mem' = <<LiveBuf(WithCStr(Truncate(desc.param_desc.name, ParamStrCap - 1))),
                LiveBuf(WithCStr(Truncate(desc.param_desc.label, ParamStrCap - 1))),
                LiveBuf(WithCStr(desc.param_desc.description))>>
    /\ pc' = "native"
    /\ UNCHANGED <<desc, back, query>>

\* from_parameter_ptr
from_parameter_ptr(f, n, l, d) ==
    [min |-> f.min, max |-> f.max, default_val |-> f.default_val,
     name |-> n, label |-> l, description |-> d]

FromParameterPtr ==
    /\ pc \in {"exported", "native"}
    /\ \E n \in ReadCStr(cffi.param_desc.name),
          l \in ReadCStr(cffi.param_desc.label),
          d \in ReadCStr(cffi.param_desc.description) :
          back' = [param_desc |-> from_parameter_ptr(cffi.param_desc, n, l, d)]
    /\ pc' = IF pc = "exported" THEN "imported" ELSE "read"
    /\ UNCHANGED <<desc, mem, cffi, query>>

\* from_description_ptr
FromDescriptionPtr ==
    /\ pc = "described"
    /\ \E s \in ReadCStr(cffi.name),
          n \in ReadCStr(cffi.param_desc.name),
          l \in ReadCStr(cffi.param_desc.label),
          d \in ReadCStr(cffi.param_desc.description) :
          back' = [name |-> s, version |-> cffi.version,
                   param_desc |-> from_parameter_ptr(cffi.param_desc, n, l, d)]
    /\ pc' = "redescribed"
    /\ UNCHANGED <<desc, mem, cffi, query>>

---------------------------------------------------------------------------
(* Parameter queries *)

\* capacities a caller passes as value_str_len / description_len
Capacities == {0, 1, ParamStrCap, WithCStrStackLen, WithCStrStackLen + 1}

\* String::with_capacity(n): an empty string, with room reserved for n bytes
with_capacity(n) == Str(0, 0)

\* the native call writes at most cap bytes, terminator included
NativeWrites(cap) == IF cap = 0 THEN {0} ELSE {1, cap}

\* get_parameter(index, value_str_len): tmp_v is an empty String whose
\* capacity is value_str_len; the native call gets the with_c_str buffer of
\* tmp_v and value_str_len, writes wrote bytes (terminator included) and
\* returns st
GetParameter(cap, buf, wrote, st) ==
    /\ pc = "start"
    /\ buf \in WithCStrBufSizes(Len(with_capacity(cap)))
    /\ wrote \in NativeWrites(cap)
    /\ query' = [op |-> "get_parameter", cap |-> cap, buf |-> buf,
                 wrote |-> wrote, ret |-> st]
    /\ pc' = "queried"
    /\ UNCHANGED <<desc, mem, cffi, back>>

\* get_parameter_info(index, name, label, description_len): tmp_d is an empty
\* String whose capacity is description_len
GetParameterInfo(cap, buf, wrote, st) ==
    /\ pc = "start"
    /\ buf \in WithCStrBufSizes(Len(with_capacity(cap)))
    /\ wrote \in NativeWrites(cap)
    /\ query' = [op |-> "get_parameter_info", cap |-> cap, buf |-> buf,
                 wrote |-> wrote, ret |-> st]
    /\ pc' = "queried"
    /\ UNCHANGED <<desc, mem, cffi, back>>

\* the descriptors converted
ParamNames == {Str(n, k) : n \in 0..MaxStrLen, k \in {0, 1}}

ParamLabels == {Str(n, 1) : n \in {0, 2, ParamStrCap, ParamStrCap + 1}}

DescNames == {Str(n, 0) : n \in {0, DescNameCap, DescNameCap + 1}}

Ranges == {<<0, 0, 0>>, <<100, 22050, 440>>}

InitMarshal ==
    /\ pc = "start"
    /\ \E n \in ParamNames, l \in ParamLabels, s \in DescNames, r \in Ranges,
          d \in {Str(0, 0), Str(3, 0)} :
          desc = [name |-> s, version |-> 1,
                  param_desc |-> [min |-> r[1], max |-> r[2], default_val |-> r[3],
                                  name |-> n, label |-> l, description |-> d]]
    /\ mem = <<>>
    /\ cffi = <<>>
    /\ back = <<>>
    /\ query = <<>>

NextMarshal ==
    \/ GetParameterFfi /\ UNCHANGED lifeVars
    \/ GetDescriptionFfi /\ UNCHANGED lifeVars
    \/ NativeFillsParameter /\ UNCHANGED lifeVars
    \/ FromParameterPtr /\ UNCHANGED lifeVars
    \/ FromDescriptionPtr /\ UNCHANGED lifeVars
    \/ \E cap \in Capacities, st \in Status :
          \E buf \in WithCStrBufSizes(0), wrote \in NativeWrites(cap) :
          GetParameter(cap, buf, wrote, st) /\ UNCHANGED lifeVars
    \/ \E cap \in Capacities, st \in Status :
          \E buf \in WithCStrBufSizes(0), wrote \in NativeWrites(cap) :
          GetParameterInfo(cap, buf, wrote, st) /\ UNCHANGED lifeVars

---------------------------------------------------------------------------

InitLife ==
    /\ objs = [w \in Slots |-> Gone]
    /\ life = [w \in Slots |-> "free"]
    /\ hist = [w \in Slots |-> FreeHist]
    /\ nrel = [h \in Handles |-> 0]
    /\ log = [op |-> "init", ret |-> "unit", nat |-> "none", rel |-> NoRel]

InitIdleMarshal ==
    /\ pc = "idle"
    /\ desc = <<>>
    /\ mem = <<>>
    /\ cffi = <<>>
    /\ back = <<>>
    /\ query = <<>>

Init == InitLife /\ InitIdleMarshal

Next ==
    \/ \E w \in Slots, h \in Handles \cup {Null} :
          FromPtrFirst(w, h) /\ UNCHANGED marshalVars
    \/ \E w \in Slots, h \in Handles \cup {Null} :
          FromPtr(w, h) /\ UNCHANGED marshalVars
    \/ \E w \in Slots, st \in Status :
          Release(w, st) /\ UNCHANGED marshalVars
    \/ \E w \in Slots, st \in Status :
          Drop(w, st) /\ UNCHANGED marshalVars
    \/ \E w, t \in Slots, st, st2 \in Status :
          AddInput(w, t, st, st2) /\ UNCHANGED marshalVars
    \/ \E w, t \in Slots, st, st2 \in Status :
          DisconnectFrom(w, t, st, st2) /\ UNCHANGED marshalVars
    \/ \E w, n \in Slots, st \in Status, h \in Handles :
          GetInput(w, n, st, h) /\ UNCHANGED marshalVars
    \/ \E w, n \in Slots, st \in Status, h \in Handles :
          GetOutput(w, n, st, h) /\ UNCHANGED marshalVars
    \/ \E w \in Slots, op \in ForwardedOps, st \in Status :
          Forward(w, op, st) /\ UNCHANGED marshalVars

Spec == Init /\ [][Next]_vars

\* the runs in which FMOD_DSP_Release succeeds whenever it is called
NextReleaseOk ==
    \/ \E w \in Slots, h \in Handles \cup {Null} :
          FromPtrFirst(w, h) /\ UNCHANGED marshalVars
    \/ \E w \in Slots, h \in Handles \cup {Null} :
          FromPtr(w, h) /\ UNCHANGED marshalVars
    \/ \E w \in Slots :
          Release(w, Ok) /\ UNCHANGED marshalVars
    \/ \E w \in Slots :
          Drop(w, Ok) /\ UNCHANGED marshalVars
    \/ \E w, t \in Slots, st \in Status :
          AddInput(w, t, st, Ok) /\ UNCHANGED marshalVars
    \/ \E w, t \in Slots, st \in Status :
          DisconnectFrom(w, t, st, Ok) /\ UNCHANGED marshalVars
    \/ \E w, n \in Slots, st \in Status, h \in Handles :
          GetInput(w, n, st, h) /\ UNCHANGED marshalVars
    \/ \E w, n \in Slots, st \in Status, h \in Handles :
          GetOutput(w, n, st, h) /\ UNCHANGED marshalVars
    \/ \E w \in Slots, op \in ForwardedOps, st \in Status :
          Forward(w, op, st) /\ UNCHANGED marshalVars

SpecReleaseOk == Init /\ [][NextReleaseOk]_vars

\* the descriptor conversions and the parameter queries
InitConversions == InitLife /\ InitMarshal

SpecMarshal == InitConversions /\ [][NextMarshal]_vars

---------------------------------------------------------------------------
(* Claims about the life of a wrapper *)

\* an owned node, built on a valid handle
Owned(w) == life[w] = "live" /\ objs[w].can_be_deleted /\ hist[w].orig # Null

\* release() has returned success on the owned node w
Released(w) == Owned(w) /\ hist[w].okcalls >= 1

C1_NoSecondRelease ==
    \A w \in Slots : Released(w) =>
        /\ log'.rel.w = w =>
              /\ log'.rel.native = "none"
              /\ log'.rel.ret = Ok
              /\ log'.op = "release" => log'.ret = Ok
              /\ nrel' = nrel
        /\ life'[w] = "live" => objs'[w].dsp = Null /\ hist'[w].okcalls = 1

C2_ReleasedExactlyOnce ==
    (/\ log.rel.w \in Slots
     /\ life[log.rel.w] = "gone"
     /\ log.rel.owned
     /\ log.rel.orig # Null) => nrel[log.rel.orig] = 1

C3_BorrowedUntouched ==
    \A w \in Slots : (life[w] = "live" /\ ~objs[w].can_be_deleted) =>
        /\ log'.rel.w = w => nrel' = nrel
        /\ life'[w] = "live" => objs'[w] = objs[w]

\* C3: a borrowed node never causes a native release call: release() on it,
\* explicit or run by Drop, returns Ok without calling FMOD_DSP_Release and
\* leaves its handle unchanged.
C3_BorrowedNeverReleased ==
    /\ []((log.rel.w \in Slots /\ ~log.rel.owned) =>
            (log.rel.native = "none" /\ log.rel.ret = Ok))
    /\ [][C3_BorrowedUntouched]_vars

\* a borrowed node obtained from get_input was dropped
C3_Witness ==
    /\ log.op = "drop"
    /\ log.rel.w \in Slots
    /\ ~log.rel.owned
    /\ log.rel.via = "get_input"
    /\ log.rel.orig # Null
    /\ nrel[log.rel.orig] = 0

C4_FailureKeepsState ==
    \A w \in Slots : life[w] = "live" =>
        /\ (log'.rel.w = w /\ log'.rel.native \in Errors /\ life'[w] = "live") =>
              /\ objs'[w] = objs[w]
              /\ objs'[w].dsp # Null
              /\ ReleaseCallsNative(objs'[w])
        /\ (log'.rel.w = w /\ objs[w].can_be_deleted /\ objs[w].dsp # Null) =>
              log'.rel.native \in Status
        /\ (life'[w] = "live" /\ objs[w].dsp # Null /\ objs'[w].dsp = Null) =>
              (log'.rel.w = w /\ log'.rel.native = Ok)

\* C4: when the native release fails on an owned node with a valid handle,
\* release() returns exactly the native error and leaves handle and ownership
\* flag as they were; a release() on an owned node with a valid handle always
\* issues the native call (so the next one retries); the handle becomes null
\* only in a step whose native release returned Ok.
C4_FailedReleaseRetryable ==
    /\ [](log.rel.native \in Errors =>
            /\ log.rel.ret = log.rel.native
            /\ log.op = "release" => log.ret = log.rel.native)
    /\ [][C4_FailureKeepsState]_vars

\* an explicit release() failed natively and the owned node still holds its handle
C4_Witness ==
    /\ log.op = "release"
    /\ log.rel.native \in Errors
    /\ log.ret = log.rel.native
    /\ log.rel.w \in Slots
    /\ Owned(log.rel.w)
    /\ objs[log.rel.w].dsp = hist[log.rel.w].orig

\* C5: for owned nodes D1 and D2 (every wrapper in scope being an owned
\* node), no native release of D2 happens during a successful
\* D1.add_input(D2) or D1.disconnect_from(D2), so that D2 is still unreleased
\* afterwards.
C5_NoReleaseWhileConnecting ==
    (/\ log.op \in {"add_input", "disconnect_from"}
     /\ log.ret = Ok
     /\ \A w \in LiveSlots : Owned(w)
     /\ log.rel.owned
     /\ log.rel.orig # Null) => (log.rel.native = "none" /\ nrel[log.rel.orig] = 0)

\* C8: no two live wrappers are both owned and hold the same non-null handle,
\* and no handle receives two successful native release calls.
C8_SingleOwner ==
    /\ \A w, v \in Slots :
          (/\ w # v
           /\ life[w] = "live" /\ life[v] = "live"
           /\ objs[w].can_be_deleted /\ objs[v].can_be_deleted
           /\ objs[w].dsp # Null) => objs[w].dsp # objs[v].dsp
    /\ \A h \in Handles : nrel[h] <= 1

---------------------------------------------------------------------------
(* Claims about the conversions *)

\* C6: the name and the label exported by get_parameter_ffi take at most 16
\* bytes, terminator included, and the name exported by get_description_ffi
\* at most 32.
C6_ExportFitsField ==
    /\ pc \in {"exported", "described"} =>
          /\ Len(mem[cffi.param_desc.name].bytes) <= ParamStrCap
          /\ Len(mem[cffi.param_desc.label].bytes) <= ParamStrCap
    /\ pc = "described" => Len(mem[cffi.name].bytes) <= DescNameCap

\* C7: a name and a label of at most 16 bytes, and min, max and default,
\* come back from get_parameter_ffi followed by from_parameter_ptr unchanged.
C7_RoundTrip ==
    (/\ pc = "imported"
     /\ Len(desc.param_desc.name) <= ParamStrCap
     /\ Len(desc.param_desc.label) <= ParamStrCap) =>
        /\ back.param_desc.name = desc.param_desc.name
        /\ back.param_desc.label = desc.param_desc.label
        /\ back.param_desc.min = desc.param_desc.min
        /\ back.param_desc.max = desc.param_desc.max
        /\ back.param_desc.default_val = desc.param_desc.default_val

\* C10: the buffer handed to FMOD_DSP_GetParameter / FMOD_DSP_GetParameterInfo
\* holds at least as many bytes as the capacity passed with it, so what the
\* native call writes stays inside it.
C10_BufferHoldsCapacity ==
    pc = "queried" => (query.buf >= query.cap /\ query.wrote <= query.buf)

---------------------------------------------------------------------------

\* C9: a non-success status of a native call made by an operation is what the
\* operation returns to its caller.
C9_StatusReported ==
    /\ log.nat \in Errors => log.ret = log.nat
    /\ log.rel.native \in Errors => log.ret = log.rel.native

====
